---- MODULE Spec2Model ----
(***************************************************************************)
(* muxprom: Prometheus instrumentation of a gorilla/mux router             *)
(* (src/prom.go).                                                          *)
(*                                                                         *)
(* The model covers New with its options and init, the response observer   *)
(* (statusWriter), the per-request middleware, Instrument and the two      *)
(* fallback wrappers.  Every request is *)
(* a process; the three collectors are the shared state.  The router, the  *)
(* real response sink and the application handlers are the environment:    *)
(* their choices are drawn from small sets.                                *)
(***************************************************************************)
EXTENDS Integers, Sequences, FiniteSets, TLC

(***************************************************************************)
(* Bounds of the model.                                                    *)
(***************************************************************************)
\* requests served in one behaviour
MaxReqs == 2
\* steps taken by application handlers in one behaviour, over all requests
MaxCalls == 2
\* largest elapsed time a request can measure, in clock units
MaxElapsed == 1
\* calls of New in one behaviour
MaxNew == 2

Reqs == 1..MaxReqs

(***************************************************************************)
(* Environment: requests, routes, handlers' inputs, the real sink.         *)
(***************************************************************************)
Methods == {"GET", "POST"}

\* the requests clients send: URL path, raw query and method
Requests ==
    { [path |-> "/a",    query |-> "",    method |-> "GET"],
      [path |-> "/a",    query |-> "",    method |-> "POST"],
      [path |-> "/u/1",  query |-> "",    method |-> "GET"],
      [path |-> "/u/2",  query |-> "q=1", method |-> "GET"],
      [path |-> "/u/1",  query |-> "",    method |-> "POST"],
      [path |-> "/nope", query |-> "",    method |-> "GET"] }

\* the routes the application registered on the router: path template, the
\* paths of Requests the template matches, and the methods it allows
Routes ==
    { [tpl |-> "/a",      paths |-> {"/a"},           methods |-> {"GET", "POST"}],
      [tpl |-> "/u/{id}", paths |-> {"/u/1", "/u/2"}, methods |-> {"GET"}] }

\* status codes an application handler passes to WriteHeader
Codes == {404, 500}

\* byte slices an application handler passes to Write (10 and 20 bytes)
Bodies == {"0123456789", "01234567890123456789"}

\* body written by http.NotFoundHandler: http.Error(w, "404 page not found", 404)
NotFoundBody == "404 page not found\n"

StatusNotFound == 404
StatusMethodNotAllowed == 405

\* what the underlying sink can answer to Write(b): everything written, or a
\* short write with an error
SinkWriteResults(b) ==
    { [n |-> Len(b), err |-> "nil"],
      [n |-> Len(b) \div 2, err |-> "write error"] }

\* what the underlying sink's own Hijack can answer
SinkHijackResults ==
    { [conn |-> "conn", buf |-> "buf", err |-> "nil"],
      [conn |-> "nil",  buf |-> "nil", err |-> "hijack failed"] }

\* placeholder for the sink's answer when its Hijack is not called
NoHijackResult == [conn |-> "nil", buf |-> "nil", err |-> "hijack failed"]

(***************************************************************************)
(* State.                                                                  *)
(***************************************************************************)
VARIABLES
    router,        \* the mux.Router: middlewares, NotFoundHandler, MethodNotAllowedHandler
    reqInFlight,   \* GaugeVec: <<route, method>> -> value, for the children created
    reqDurationHistogram,  \* HistogramVec: <<route, method, http_status>> -> child
    reqRespSizeHistogram,  \* HistogramVec: <<route, method, http_status>> -> child
    pc,            \* per request: position in the middleware / handler
    req,           \* per request: the *http.Request (path, query, method), mutable
    arrived,       \* per request: the request as the client sent it
    chain,         \* per request: the handler the router dispatched to
    routeName,     \* per request: middleware local routeName
    sw,            \* per request: the statusWriter {status, length}
    hijacker,      \* per request: does the underlying sink implement http.Hijacker;
                   \* "unknown" until the request first asks
    calls,         \* per request: calls the handler made on its ResponseWriter, with results
    sink,          \* per request: calls that reached the underlying sink, with results
    depth,         \* per request: middleware invocations entered and not yet left
    metricOps,     \* per request: collector operations the middleware performed, in order
    budget,        \* application handler steps left
    proms,         \* the calls of New so far: options, the MuxProm, position
    registry,      \* prometheus.DefaultRegisterer: names of the collectors registered
    routes         \* the routes New has registered on the router

vars == << router, reqInFlight, reqDurationHistogram, reqRespSizeHistogram,
           pc, req, arrived, chain, routeName, sw, hijacker, calls, sink,
           depth, metricOps, budget, proms, registry, routes >>

construction == << proms, registry, routes >>

collectors == << reqInFlight, reqDurationHistogram, reqRespSizeHistogram >>

(***************************************************************************)
(* Pure functions.                                                         *)
(***************************************************************************)
Digits == << "0", "1", "2", "3", "4", "5", "6", "7", "8", "9" >>

\* fmt.Sprintf("%d", n)
RECURSIVE Itoa(_)
Itoa(n) ==
    IF n < 0 THEN "-" \o Itoa(0 - n)
    ELSE IF n < 10 THEN Digits[n + 1]
    ELSE Itoa(n \div 10) \o Digits[(n % 10) + 1]

\* r.URL.RequestURI(): the path, then "?" and the raw query when there is one
RequestURI(r) ==
    IF r.query = "" THEN r.path ELSE r.path \o "?" \o r.query

\* the routes whose template matches the path, and those that also allow the method
PathRoutes(r) == { rt \in Routes : r.path \in rt.paths }
FullRoutes(r) == { rt \in PathRoutes(r) : r.method \in rt.methods }

\* the router's dispatch: which handler serves the request, and through which
\* wrappers.  The Use-middlewares wrap matched routes only; the fallback
\* handlers are taken as they stand in the router's fields, a nil field
\* standing for the router's built-in handler.
Dispatch(rtr, r) ==
    IF FullRoutes(r) # {}
    THEN [kind |-> "route", wrapped |-> rtr.middlewares,
          tpl |-> (CHOOSE rt \in FullRoutes(r) : TRUE).tpl]
    ELSE IF PathRoutes(r) # {}
    THEN [kind |-> IF rtr.MethodNotAllowedHandler.kind = "nil" THEN "notallowed"
                   ELSE rtr.MethodNotAllowedHandler.kind,
          wrapped |-> rtr.MethodNotAllowedHandler.wrapped, tpl |-> ""]
    ELSE [kind |-> IF rtr.NotFoundHandler.kind = "nil" THEN "notfound"
                   ELSE rtr.NotFoundHandler.kind,
          wrapped |-> rtr.NotFoundHandler.wrapped, tpl |-> ""]

\* variant: the fallback handler is defaulted but not wrapped
WrapNotFoundHandler_Unwrapped(h) ==
    [kind |-> IF h.kind = "nil" THEN "notfound" ELSE h.kind,
     wrapped |-> h.wrapped]

\* WrapNotFoundHandler(h, m): nil becomes http.NotFoundHandler(), then m(h)
WrapNotFoundHandler(h) ==
    [kind |-> IF h.kind = "nil" THEN "notfound" ELSE h.kind,
     wrapped |-> h.wrapped + 1]

\* WrapMethodNotAllowedHandler(h, m): nil becomes the 405 writer, then m(h)
WrapMethodNotAllowedHandler(h) ==
    [kind |-> IF h.kind = "nil" THEN "notallowed" ELSE h.kind,
     wrapped |-> h.wrapped + 1]

(***************************************************************************)
(* statusWriter.                                                           *)
(***************************************************************************)
\* sw := statusWriter{ResponseWriter: w}
NewStatusWriter == [status |-> 0, length |-> 0]

\* variant: one statusWriter, shared by every invocation of the middleware
Observer_Shared(r) == CHOOSE q \in Reqs : \A o \in Reqs : q <= o

\* the statusWriter an invocation of the middleware uses: sw is a local
\* variable of the invocation, so each request has its own
Observer(r) == r

\* statusWriter.WriteHeader: the observer's fields afterwards
WriteHeaderState(w, status) == [w EXCEPT !.status = status]

\* variant: only the first status is forwarded
WriteHeaderForward_FirstOnly(w, status) ==
    IF w.status = 0 THEN << [op |-> "WriteHeader", code |-> status] >> ELSE << >>

\* statusWriter.WriteHeader: the calls made on the embedded ResponseWriter
WriteHeaderForward(w, status) == << [op |-> "WriteHeader", code |-> status] >>

\* variant: no implicit 200
WriteStatus_NoDefault(w) == w.status

\* statusWriter.Write: the status after the implicit-200 step
WriteStatus(w) == IF w.status = 0 THEN 200 ELSE w.status

\* statusWriter.Write: the bytes handed to the embedded ResponseWriter
WriteForward(w, b) == b

\* variant: the bytes requested are counted, not the bytes written
WriteState_Requested(w, b, res) ==
    [status |-> WriteStatus(w), length |-> w.length + Len(b)]

\* statusWriter.Write: the observer's fields afterwards, res being what the
\* embedded ResponseWriter returned
WriteState(w, b, res) ==
    [status |-> WriteStatus(w), length |-> w.length + res.n]

\* statusWriter.Write: what the caller gets back
WriteReturn(w, b, res) == [n |-> res.n, err |-> res.err]

\* statusWriter.Hijack: is the embedded writer's Hijack called
HijackForwards(ok) == ok

\* variant: an unsupported Hijack reports no error
HijackReturn_Silent(ok, res) ==
    IF ok THEN res ELSE [conn |-> "nil", buf |-> "nil", err |-> "nil"]

\* statusWriter.Hijack: what the caller gets back, res being what the embedded
\* writer's Hijack returned when it was called
HijackReturn(ok, res) ==
    IF ok THEN res
    ELSE [conn |-> "nil", buf |-> "nil",
          err |-> "not supported by the underlying writer"]

(***************************************************************************)
(* Collectors.                                                             *)
(***************************************************************************)
\* bucket upper bounds; durations in units of 0.0001 s
defaultDurationBucket ==
    << 1, 5, 10, 50, 100, 250, 500, 1000, 2500, 5000, 10000, 25000, 50000, 100000 >>
defaultRespSizeBucket ==
    << 0, 512, 1024, 102400, 524288, 1048576, 5242880, 10485760, 26214400,
       52428800, 104857600, 524288000 >>

\* GaugeVec.WithLabelValues(k).Add(d): the child is created on first use
GaugeAdd(g, k, d) ==
    IF k \in DOMAIN g THEN [g EXCEPT ![k] = @ + d] ELSE g @@ (k :> d)

GaugeValue(g, k) == IF k \in DOMAIN g THEN g[k] ELSE 0

\* index of the first bucket whose upper bound is >= v; Len + 1 is +Inf
BucketIndex(bounds, v) ==
    IF \E i \in 1..Len(bounds) : v <= bounds[i]
    THEN CHOOSE i \in 1..Len(bounds) :
            v <= bounds[i] /\ \A j \in 1..(i - 1) : v > bounds[j]
    ELSE Len(bounds) + 1

NewHistogram(bounds) ==
    [count |-> 0, sum |-> 0, buckets |-> [i \in 1..(Len(bounds) + 1) |-> 0]]

\* HistogramVec.WithLabelValues(k).Observe(v)
HistObserve(h, k, v, bounds) ==
    LET child == IF k \in DOMAIN h THEN h[k] ELSE NewHistogram(bounds)
        i     == BucketIndex(bounds, v)
        next  == [count   |-> child.count + 1,
                  sum     |-> child.sum + v,
                  buckets |-> [child.buckets EXCEPT ![i] = @ + 1]]
    IN  IF k \in DOMAIN h THEN [h EXCEPT ![k] = next] ELSE h @@ (k :> next)

HistCount(h, k) == IF k \in DOMAIN h THEN h[k].count ELSE 0
HistSum(h, k) == IF k \in DOMAIN h THEN h[k].sum ELSE 0

(***************************************************************************)
(* Middleware: the label values it computes.                               *)
(***************************************************************************)
\* routeName := r.URL.RequestURI()
RouteLabel(r, ch) == RequestURI(r)

\* the labels of the in-flight gauge at the increment
IncKey(r, rn) == << rn, r.method >>

\* the labels of the in-flight gauge at the decrement
DecKey(r, rn) == << rn, r.method >>

\* variant: the status of a statusWriter the handler never wrote to
HistKey_Unwritten(r, rn, w) == << rn, r.method, Itoa(NewStatusWriter.status) >>

\* the labels of both histograms
HistKey(r, rn, w) == << rn, r.method, Itoa(w.status) >>

\* float64(sw.length)
ObservedSize(w) == w.length


(***************************************************************************)
(* Construction: the options, New and init.                                *)
(***************************************************************************)
\* the option functions: each sets one field of the MuxProm
Namespace(v)        == [opt |-> "Namespace", v |-> v]
MetricsPath(v)      == [opt |-> "MetricsPath", v |-> v]
MetricsRouteName(v) == [opt |-> "MetricsRouteName", v |-> v]
DurationBucket(v)   == [opt |-> "DurationBucket", v |-> v]
RespSizeBucket(v)   == [opt |-> "RespSizeBucket", v |-> v]
\* v is "router" for a *mux.Router and "nil" for a nil pointer
Router(v)           == [opt |-> "Router", v |-> v]

\* duration buckets 0.1 s, 1 s and 10 s, and response sizes of 5 and 15 bytes
customDurationBucket == << 1000, 10000, 100000 >>
customRespSizeBucket == << 5, 15 >>

\* the option lists the program passes to New
OptionLists ==
    { << >>,
      << Router("nil") >>,
      << Router("router") >>,
      << DurationBucket(customDurationBucket), Router("router"),
         RespSizeBucket(customRespSizeBucket) >>,
      << Router("router"), Namespace("app"), MetricsPath("/prom"),
         MetricsRouteName("prom") >> }

\* p := &MuxProm{...}: the defaults, and no router
DefaultMuxProm ==
    [MetricsPath      |-> "/metrics",
     MetricsRouteName |-> "metrics",
     Namespace        |-> "muxprom",
     DurationBucket   |-> defaultDurationBucket,
     RespSizeBucket   |-> defaultRespSizeBucket,
     Router           |-> "nil"]

ApplyOption(p, o) ==
    CASE o.opt = "Namespace"        -> [p EXCEPT !.Namespace = o.v]
      [] o.opt = "MetricsPath"      -> [p EXCEPT !.MetricsPath = o.v]
      [] o.opt = "MetricsRouteName" -> [p EXCEPT !.MetricsRouteName = o.v]
      [] o.opt = "DurationBucket"   -> [p EXCEPT !.DurationBucket = o.v]
      [] o.opt = "RespSizeBucket"   -> [p EXCEPT !.RespSizeBucket = o.v]
      [] o.opt = "Router"           -> [p EXCEPT !.Router = o.v]

\* for _, option := range options { option(p) }
RECURSIVE ApplyOptions(_, _)
ApplyOptions(p, opts) ==
    IF opts = << >> THEN p
    ELSE ApplyOptions(ApplyOption(p, Head(opts)), Tail(opts))

\* the full names of the three collectors, in the order init registers them
CollectorNames(p) ==
    << [ns |-> p.Namespace, name |-> "http_requests_inflight"],
       [ns |-> p.Namespace, name |-> "http_request_duration_seconds"],
       [ns |-> p.Namespace, name |-> "http_response_size"] >>

\* the histograms of a MuxProm before init has built them
NoBuckets == [duration |-> << >>, size |-> << >>]

\* variant: the histograms are built with the package defaults
HistogramBuckets_Defaults(p) ==
    [duration |-> defaultDurationBucket, size |-> defaultRespSizeBucket]

\* HistogramOpts.Buckets of the two histograms init builds
HistogramBuckets(p) ==
    [duration |-> p.DurationBucket, size |-> p.RespSizeBucket]

\* variant: the registry takes a collector whatever it holds already
AlreadyRegistered_Never(reg, name) == FALSE

\* the registry refuses a collector whose name it holds already
AlreadyRegistered(reg, name) == name \in reg

\* init, collector after collector: each is built and then handed to
\* prometheus.MustRegister; a collector the registry refuses is a panic, and
\* nothing after it is built or registered.  built counts the collectors
\* built, the refused one included.
RECURSIVE MustRegisterAll(_, _)
MustRegisterAll(reg, names) ==
    IF names = << >> THEN [registry |-> reg, panicked |-> FALSE, built |-> 0]
    ELSE IF AlreadyRegistered(reg, Head(names))
         THEN [registry |-> reg, panicked |-> TRUE, built |-> 1]
    ELSE LET rest == MustRegisterAll(reg \cup {Head(names)}, Tail(names))
         IN  [rest EXCEPT !.built = @ + 1]

\* the histograms of a MuxProm whose init built that many collectors: the
\* duration histogram is the second init builds, the size histogram the third
BuiltBuckets(p, built) ==
    [duration |-> IF built >= 2 THEN HistogramBuckets(p).duration
                  ELSE NoBuckets.duration,
     size     |-> IF built >= 3 THEN HistogramBuckets(p).size
                  ELSE NoBuckets.size]

\* variant: New returns without looking at the router
RouterCheck_Missing(p) == "returned"

\* if p.Router != nil { ... } else { log.Fatal("You need to set Router") }
RouterCheck(p) == IF p.Router # "nil" THEN "returned" ELSE "fatal"

\* p.Router.Name(p.MetricsRouteName).Methods("GET").Path(p.MetricsPath)
ScrapeRoute(p) ==
    [name |-> p.MetricsRouteName, methods |-> {"GET"}, path |-> p.MetricsPath]

\* log.Fatal has not ended the process
Alive == \A i \in 1..Len(proms) : proms[i].pc # "fatal"

\* no call of New is under way
NoNewRunning == \A i \in 1..Len(proms) : proms[i].pc \in {"returned", "panicked"}

\* the MuxProm the program instruments the router with: the first it built
ServingProm == proms[1]

Serving ==
    /\ Alive /\ NoNewRunning
    /\ proms # << >>
    /\ ServingProm.pc = "returned"

(***************************************************************************)
(* Initial state: the router as New leaves it, no collector child yet, no  *)
(* request.  The application set no fallback handler of its own.           *)
(***************************************************************************)
NilHandler == [kind |-> "nil", wrapped |-> 0]
NoRequest == [path |-> "", query |-> "", method |-> ""]
NoChain == [kind |-> "nil", wrapped |-> 0, tpl |-> ""]
Empty == << >>

InitServer ==
    /\ router = [middlewares |-> 0, NotFoundHandler |-> NilHandler,
                 MethodNotAllowedHandler |-> NilHandler]
    /\ reqInFlight = Empty
    /\ reqDurationHistogram = Empty
    /\ reqRespSizeHistogram = Empty
    /\ pc = [r \in Reqs |-> "idle"]
    /\ req = [r \in Reqs |-> NoRequest]
    /\ arrived = [r \in Reqs |-> NoRequest]
    /\ chain = [r \in Reqs |-> NoChain]
    /\ routeName = [r \in Reqs |-> ""]
    /\ sw = [r \in Reqs |-> NewStatusWriter]
    /\ hijacker = [r \in Reqs |-> "unknown"]
    /\ calls = [r \in Reqs |-> << >>]
    /\ sink = [r \in Reqs |-> << >>]
    /\ depth = [r \in Reqs |-> 0]
    /\ metricOps = [r \in Reqs |-> << >>]

\* the program of the README: prom := muxprom.New(muxprom.Router(r)) has
\* returned, nothing else has been built
Constructed ==
    LET opts == << Router("router") >>
        p    == ApplyOptions(DefaultMuxProm, opts)
    IN  /\ proms = << [opts |-> opts, p |-> p, pc |-> "returned",
                       buckets |-> HistogramBuckets(p)] >>
        /\ registry = { CollectorNames(p)[i] : i \in 1..Len(CollectorNames(p)) }
        /\ routes = << ScrapeRoute(p) >>

InitState == InitServer /\ Constructed

Init == InitState /\ budget = MaxCalls

(***************************************************************************)
(* MuxProm.Instrument, called once by the program before it serves.        *)
(***************************************************************************)
\* variant: the middleware is installed twice with Router.Use
InstrumentRouter_UseTwice(rtr) ==
    [middlewares |-> rtr.middlewares + 2,
     NotFoundHandler |-> WrapNotFoundHandler(rtr.NotFoundHandler),
     MethodNotAllowedHandler |-> WrapMethodNotAllowedHandler(rtr.MethodNotAllowedHandler)]

InstrumentRouter(rtr) ==
    [middlewares |-> rtr.middlewares + 1,
     NotFoundHandler |-> WrapNotFoundHandler(rtr.NotFoundHandler),
     MethodNotAllowedHandler |-> WrapMethodNotAllowedHandler(rtr.MethodNotAllowedHandler)]

Instrument ==
    /\ Serving
    /\ router.middlewares = 0
    /\ router' = InstrumentRouter(router)
    /\ UNCHANGED << construction, collectors, pc, req, arrived, chain, routeName, sw, hijacker,
                    calls, sink, depth, metricOps, budget >>

(***************************************************************************)
(* A request arrives and the router dispatches it.                         *)
(***************************************************************************)
Arrive(r) ==
    /\ router.middlewares > 0
    /\ pc[r] = "idle"
    /\ \A q \in Reqs : q < r => pc[q] # "idle"
    /\ \E rq \in Requests :
         LET ch == Dispatch(router, rq)
         IN  /\ req' = [req EXCEPT ![r] = rq]
             /\ arrived' = [arrived EXCEPT ![r] = rq]
             /\ chain' = [chain EXCEPT ![r] = ch]
             /\ pc' = [pc EXCEPT ![r] = IF ch.wrapped > 0 THEN "dispatched" ELSE "handler"]
    /\ UNCHANGED << construction, router, collectors, routeName, sw, hijacker, calls, sink, depth,
                    metricOps, budget >>

(***************************************************************************)
(* middleware, up to the call of next.ServeHTTP.                           *)
(***************************************************************************)
MwEnter(r) ==
    /\ pc[r] = "dispatched"
    /\ LET rn == RouteLabel(req[r], chain[r])
           k  == IncKey(req[r], rn)
       IN  /\ routeName' = [routeName EXCEPT ![r] = rn]
           /\ reqInFlight' = GaugeAdd(reqInFlight, k, 1)
           /\ metricOps' = [metricOps EXCEPT ![r] = Append(@, [op |-> "Inc", key |-> k])]
    /\ sw' = [sw EXCEPT ![Observer(r)] = NewStatusWriter]
    /\ depth' = [depth EXCEPT ![r] = @ + 1]
    /\ pc' = [pc EXCEPT ![r] = IF depth[r] + 1 < chain[r].wrapped
                               THEN "dispatched" ELSE "handler"]
    /\ UNCHANGED << construction, router, reqDurationHistogram, reqRespSizeHistogram, req, arrived,
                    chain, hijacker, calls, sink, budget >>

(***************************************************************************)
(* The handler's calls on the ResponseWriter it was given: the statusWriter*)
(* when the middleware wraps it, the underlying sink otherwise.            *)
(***************************************************************************)
DoWriteHeader(r, status) ==
    /\ calls' = [calls EXCEPT ![r] = Append(@, [op |-> "WriteHeader", code |-> status])]
    /\ IF depth[r] > 0
       THEN /\ sw' = [sw EXCEPT ![Observer(r)] = WriteHeaderState(@, status)]
            /\ sink' = [sink EXCEPT ![r] =
                          @ \o WriteHeaderForward(sw[Observer(r)], status)]
       ELSE /\ sw' = sw
            /\ sink' = [sink EXCEPT ![r] = Append(@, [op |-> "WriteHeader", code |-> status])]

DoWrite(r, b) ==
    LET fwd == IF depth[r] > 0 THEN WriteForward(sw[Observer(r)], b) ELSE b
    IN  \E res \in SinkWriteResults(fwd) :
          LET ret == IF depth[r] > 0 THEN WriteReturn(sw[Observer(r)], b, res)
                     ELSE [n |-> res.n, err |-> res.err]
          IN  /\ sink' = [sink EXCEPT ![r] =
                    Append(@, [op |-> "Write", b |-> fwd, n |-> res.n, err |-> res.err])]
              /\ calls' = [calls EXCEPT ![r] =
                    Append(@, [op |-> "Write", b |-> b, n |-> ret.n, err |-> ret.err])]
              /\ sw' = IF depth[r] > 0
                       THEN [sw EXCEPT ![Observer(r)] = WriteState(@, b, res)]
                       ELSE sw

\* ok: the outcome of the type assertion w.ResponseWriter.(http.Hijacker)
DoHijack(r, ok) ==
    LET fwd == IF depth[r] > 0 THEN HijackForwards(ok) ELSE ok
    IN  \E res \in SinkHijackResults :
          LET ret == IF depth[r] > 0 THEN HijackReturn(ok, res) ELSE res
          IN  /\ fwd \/ res = NoHijackResult
              /\ sink' = [sink EXCEPT ![r] =
                    IF fwd
                    THEN Append(@, [op |-> "Hijack", conn |-> res.conn,
                                    buf |-> res.buf, err |-> res.err])
                    ELSE @]
              /\ calls' = [calls EXCEPT ![r] =
                    Append(@, [op |-> "Hijack", conn |-> ret.conn,
                               buf |-> ret.buf, err |-> ret.err])]
              /\ hijacker' = [hijacker EXCEPT ![r] = IF ok THEN "yes" ELSE "no"]
              /\ sw' = sw

\* the handler is application code: a registered route's handler, or a
\* fallback handler the application set
AppHandler(r) == pc[r] = "handler" /\ chain[r].kind \notin {"notfound", "notallowed"}

HandlerFrame ==
    UNCHANGED << construction, router, collectors, pc, req, arrived, chain, routeName, depth, metricOps >>

HandlerWriteHeader(r) ==
    /\ AppHandler(r)
    /\ budget > 0
    /\ \E status \in Codes : DoWriteHeader(r, status)
    /\ budget' = budget - 1
    /\ UNCHANGED hijacker
    /\ HandlerFrame

HandlerWrite(r) ==
    /\ AppHandler(r)
    /\ budget > 0
    /\ \E b \in Bodies : DoWrite(r, b)
    /\ budget' = budget - 1
    /\ UNCHANGED hijacker
    /\ HandlerFrame

\* only a handler given a writer with a Hijack method can call it: the
\* statusWriter always has one, the bare sink only when it is a Hijacker
HandlerHijack(r) ==
    /\ AppHandler(r)
    /\ budget > 0
    /\ \E ok \in BOOLEAN :
         /\ hijacker[r] \in {"unknown", IF ok THEN "yes" ELSE "no"}
         /\ depth[r] > 0 \/ ok
         /\ DoHijack(r, ok)
    /\ budget' = budget - 1
    /\ HandlerFrame

\* the handler assigns r.Method on the request it shares with the middleware
HandlerSetMethod(r) ==
    /\ AppHandler(r)
    /\ budget > 0
    /\ \E m \in Methods \ {req[r].method} :
         req' = [req EXCEPT ![r].method = m]
    /\ budget' = budget - 1
    /\ UNCHANGED << construction, router, collectors, pc, arrived, chain, routeName, sw, hijacker,
                    calls, sink, depth, metricOps >>

\* http.NotFoundHandler(): WriteHeader(404), then the body
NotFoundStep(r) ==
    /\ pc[r] = "handler"
    /\ chain[r].kind = "notfound"
    /\ Len(calls[r]) < 2
    /\ IF Len(calls[r]) = 0
       THEN DoWriteHeader(r, StatusNotFound)
       ELSE DoWrite(r, NotFoundBody)
    /\ UNCHANGED << budget, hijacker >>
    /\ HandlerFrame

\* the default method-not-allowed handler: WriteHeader(405)
MethodNotAllowedStep(r) ==
    /\ pc[r] = "handler"
    /\ chain[r].kind = "notallowed"
    /\ Len(calls[r]) < 1
    /\ DoWriteHeader(r, StatusMethodNotAllowed)
    /\ UNCHANGED << budget, hijacker >>
    /\ HandlerFrame

HandlerFinished(r) ==
    CASE chain[r].kind = "notfound"   -> Len(calls[r]) = 2
      [] chain[r].kind = "notallowed" -> Len(calls[r]) = 1
      [] OTHER -> TRUE

\* next.ServeHTTP returns
HandlerReturn(r) ==
    /\ pc[r] = "handler"
    /\ HandlerFinished(r)
    /\ pc' = [pc EXCEPT ![r] = IF depth[r] > 0 THEN "returned" ELSE "done"]
    /\ UNCHANGED << construction, router, collectors, req, arrived, chain, routeName, sw, hijacker,
                    calls, sink, depth, metricOps, budget >>

\* next.ServeHTTP panics: the panic unwinds through the middleware, which has
\* no deferred call and no recover, up to the server
HandlerPanic(r) ==
    /\ AppHandler(r)
    /\ pc' = [pc EXCEPT ![r] = "panicked"]
    /\ UNCHANGED << construction, router, collectors, req, arrived, chain, routeName, sw, hijacker,
                    calls, sink, depth, metricOps, budget >>

(***************************************************************************)
(* middleware, after next.ServeHTTP has returned.                          *)
(***************************************************************************)
ObserveDuration(r) ==
    /\ pc[r] = "returned"
    \* duration := time.Since(start): whatever time the clock says has passed
    /\ \E d \in 0..MaxElapsed :
         LET k == HistKey(req[r], routeName[r], sw[Observer(r)])
         IN  /\ reqDurationHistogram' =
                    HistObserve(reqDurationHistogram, k, d, ServingProm.buckets.duration)
             /\ metricOps' = [metricOps EXCEPT ![r] =
                    Append(@, [op |-> "ObserveDuration", key |-> k, v |-> d])]
    /\ pc' = [pc EXCEPT ![r] = "durationObserved"]
    /\ UNCHANGED << construction, router, reqInFlight, reqRespSizeHistogram, req, arrived, chain,
                    routeName, sw, hijacker, calls, sink, depth, budget >>

ObserveSize(r) ==
    /\ pc[r] = "durationObserved"
    /\ LET k == HistKey(req[r], routeName[r], sw[Observer(r)])
           v == ObservedSize(sw[Observer(r)])
       IN  /\ reqRespSizeHistogram' =
                  HistObserve(reqRespSizeHistogram, k, v, ServingProm.buckets.size)
           /\ metricOps' = [metricOps EXCEPT ![r] =
                  Append(@, [op |-> "ObserveSize", key |-> k, v |-> v])]
    /\ pc' = [pc EXCEPT ![r] = "sizeObserved"]
    /\ UNCHANGED << construction, router, reqInFlight, reqDurationHistogram, req, arrived, chain,
                    routeName, sw, hijacker, calls, sink, depth, budget >>

MwDec(r) ==
    /\ pc[r] = "sizeObserved"
    /\ LET k == DecKey(req[r], routeName[r])
       IN  /\ reqInFlight' = GaugeAdd(reqInFlight, k, 0 - 1)
           /\ metricOps' = [metricOps EXCEPT ![r] = Append(@, [op |-> "Dec", key |-> k])]
    /\ depth' = [depth EXCEPT ![r] = @ - 1]
    /\ pc' = [pc EXCEPT ![r] = IF depth[r] > 1 THEN "returned" ELSE "done"]
    /\ UNCHANGED << construction, router, reqDurationHistogram, reqRespSizeHistogram, req, arrived,
                    chain, routeName, sw, hijacker, calls, sink, budget >>

\* one step of request r
Step(r) ==
    \/ Arrive(r)
    \/ MwEnter(r)
    \/ HandlerWriteHeader(r)
    \/ HandlerWrite(r)
    \/ HandlerHijack(r)
    \/ HandlerSetMethod(r)
    \/ NotFoundStep(r)
    \/ MethodNotAllowedStep(r)
    \/ HandlerReturn(r)
    \/ HandlerPanic(r)
    \/ ObserveDuration(r)
    \/ ObserveSize(r)
    \/ MwDec(r)

\* the server: requests are served concurrently
Next == Instrument \/ \E r \in Reqs : Step(r)

Spec == Init /\ [][Next]_vars

\* a server that gets a single request: the observer and the middleware of
\* one request on their own.
FirstReq == CHOOSE r \in Reqs : \A q \in Reqs : r <= q

NextOne == Instrument \/ Step(FirstReq)

\* its handler may take one step more than the handlers of Spec take together
InitOne == InitState /\ budget = MaxCalls + 1

SpecOne == InitOne /\ [][NextOne]_vars

(***************************************************************************)
(* New(options...), in main before the router is instrumented: the         *)
(* defaults and the options, then init, then the router check.             *)
(***************************************************************************)
NewApplyOptions(opts) ==
    /\ Alive /\ NoNewRunning
    /\ router.middlewares = 0
    /\ Len(proms) < MaxNew
    /\ LET p == ApplyOptions(DefaultMuxProm, opts)
       IN  proms' = Append(proms, [opts |-> opts, p |-> p, pc |-> "options",
                                   buckets |-> NoBuckets])
    /\ UNCHANGED << registry, routes, router, collectors, pc, req, arrived, chain,
                    routeName, sw, hijacker, calls, sink, depth, metricOps, budget >>

\* p.init()
NewInit ==
    /\ proms # << >>
    /\ LET i   == Len(proms)
           p   == proms[i].p
           res == MustRegisterAll(registry, CollectorNames(p))
       IN  /\ proms[i].pc = "options"
           /\ registry' = res.registry
           /\ proms' = [proms EXCEPT ![i].pc = IF res.panicked THEN "panicked"
                                               ELSE "inited",
                                     ![i].buckets = BuiltBuckets(p, res.built)]
    /\ UNCHANGED << routes, router, collectors, pc, req, arrived, chain,
                    routeName, sw, hijacker, calls, sink, depth, metricOps, budget >>

\* the router check: the scrape route, or log.Fatal
NewRoute ==
    /\ proms # << >>
    /\ LET i == Len(proms)
           p == proms[i].p
       IN  /\ proms[i].pc = "inited"
           /\ proms' = [proms EXCEPT ![i].pc = RouterCheck(p)]
           /\ routes' = IF RouterCheck(p) = "returned"
                        THEN Append(routes, ScrapeRoute(p))
                        ELSE routes
    /\ UNCHANGED << registry, router, collectors, pc, req, arrived, chain,
                    routeName, sw, hijacker, calls, sink, depth, metricOps, budget >>

New == (\E opts \in OptionLists : NewApplyOptions(opts)) \/ NewInit \/ NewRoute

\* the whole program with one request: main builds its MuxProms, instruments
\* the router with the first and serves
NextNew == New \/ Instrument \/ Step(FirstReq)

InitNew ==
    /\ InitServer
    /\ proms = << >>
    /\ registry = {}
    /\ routes = << >>
    /\ budget = MaxCalls - 1

SpecNew == InitNew /\ [][NextNew]_vars

(***************************************************************************)
(* Properties.                                                             *)
(***************************************************************************)
\* number of entries of a log that satisfy Test
Count(log, Test(_)) == Len(SelectSeq(log, Test))

IsInc(e) == e.op = "Inc"
IsDec(e) == e.op = "Dec"
IsObserveDuration(e) == e.op = "ObserveDuration"
IsObserveSize(e) == e.op = "ObserveSize"
IsObservation(e) == e.op \in {"ObserveDuration", "ObserveSize"}
IsWriteHeader(e) == e.op = "WriteHeader"
IsWrite(e) == e.op = "Write"
IsHijack(e) == e.op = "Hijack"
SetsStatus(e) == e.op \in {"WriteHeader", "Write"}

\* the request went through the middleware
Entered(r) == metricOps[r] # << >>

\* the request is over: its handler returned and the middleware finished, or
\* its handler panicked
Finished(r) == pc[r] \in {"done", "panicked"}

\* the handler has returned to the middleware
Returned(r) == pc[r] \in {"returned", "durationObserved", "sizeObserved", "done"}

\* the status the response carries: that of the first status-setting call,
\* an explicit WriteHeader or the implicit 200 of a Write; 200 when the
\* handler sets none
FirstStatus(log) ==
    LET s == SelectSeq(log, SetsStatus)
    IN  IF s = << >> THEN 200
        ELSE IF s[1].op = "WriteHeader" THEN s[1].code ELSE 200

\* bytes the sink reported written, over all the Write calls it received
RECURSIVE SumWritten(_)
SumWritten(log) ==
    IF log = << >> THEN 0
    ELSE (IF Head(log).op = "Write" THEN Head(log).n ELSE 0) + SumWritten(Tail(log))

\* C1: every request that entered the middleware and is over, by return or
\* by panic, has incremented the in-flight gauge exactly once and decremented
\* it exactly once; once every request is over the gauge is 0 for every key.
C1_Pairing ==
    /\ \A r \in Reqs :
         Entered(r) /\ Finished(r) =>
            /\ Count(metricOps[r], IsInc) = 1
            /\ Count(metricOps[r], IsDec) = 1
    /\ (\A r \in Reqs : Finished(r)) =>
          \A k \in DOMAIN reqInFlight : reqInFlight[k] = 0

\* C2: once the handler has set a status, the status the observer holds is
\* the one of the first status-setting call, whatever WriteHeader calls follow.
C2_FirstWriteWins ==
    \A r \in Reqs :
       Entered(r) /\ Count(calls[r], SetsStatus) > 0 =>
          sw[r].status = FirstStatus(calls[r])

\* C3: a handler that writes body bytes and never calls WriteHeader has
\* status 200 recorded from its first Write on, the write is forwarded, and
\* every observation of the request carries the status label "200".
C3_StatusDefault ==
    \A r \in Reqs :
       /\ Entered(r)
       /\ Count(calls[r], IsWrite) > 0
       /\ Count(calls[r], IsWriteHeader) = 0
       => /\ sw[r].status = 200
          /\ Count(sink[r], IsWrite) = Count(calls[r], IsWrite)
          /\ \A i \in 1..Len(metricOps[r]) :
                IsObservation(metricOps[r][i]) => metricOps[r][i].key[3] = "200"

C3_Witness ==
    \E r \in Reqs :
       /\ pc[r] = "done"
       /\ Count(calls[r], IsWrite) > 0
       /\ Count(calls[r], IsWriteHeader) = 0
       /\ \E k \in DOMAIN reqRespSizeHistogram : k[3] = "200"
       /\ \E k \in DOMAIN reqDurationHistogram : k[3] = "200"

\* sum of the sums of every series of a histogram
RECURSIVE TotalSum(_, _)
TotalSum(h, keys) ==
    IF keys = {} THEN 0
    ELSE LET k == CHOOSE x \in keys : TRUE
         IN  h[k].sum + TotalSum(h, keys \ {k})

RECURSIVE TotalWritten(_)
TotalWritten(rs) ==
    IF rs = {} THEN 0
    ELSE LET r == CHOOSE x \in rs : TRUE
         IN  SumWritten(sink[r]) + TotalWritten(rs \ {r})

\* C4: the value a request observes into the response-size histogram is the
\* sum of the byte counts the sink reported for the request's Write calls; so
\* the histogram's sums add up to the bytes the sink reported written for the
\* requests observed.
C4_SizeAccuracy ==
    /\ \A r \in Reqs : \A i \in 1..Len(metricOps[r]) :
          IsObserveSize(metricOps[r][i]) => metricOps[r][i].v = SumWritten(sink[r])
    /\ TotalSum(reqRespSizeHistogram, DOMAIN reqRespSizeHistogram) =
          TotalWritten({ r \in Reqs : Count(metricOps[r], IsObserveSize) > 0 })

\* writes of 10 then 20 bytes, both complete, observe 30
C4_Witness ==
    \E r \in Reqs :
       /\ pc[r] = "done"
       /\ Len(calls[r]) = 2
       /\ calls[r][1] = [op |-> "Write", b |-> "0123456789", n |-> 10, err |-> "nil"]
       /\ calls[r][2] = [op |-> "Write", b |-> "01234567890123456789", n |-> 20,
                         err |-> "nil"]
       /\ \E k \in DOMAIN reqRespSizeHistogram :
             k[3] = "200" /\ reqRespSizeHistogram[k].sum = 30

\* C5: a request whose handler panicked has its duration and its response
\* size observed and its in-flight increment undone.
C5_CompletionOnPanic ==
    \A r \in Reqs :
       Entered(r) /\ pc[r] = "panicked" =>
          /\ Count(metricOps[r], IsObserveDuration) = 1
          /\ Count(metricOps[r], IsObserveSize) = 1
          /\ Count(metricOps[r], IsDec) = 1

\* the series a completed request belongs to: the route and method it
\* arrived with and the status its response carries
OwnSeries(r) ==
    << RequestURI(arrived[r]), arrived[r].method, Itoa(FirstStatus(sink[r])) >>

\* C6: a request that completed has made exactly one observation in each
\* histogram, both in the series of its own route, method and status; once
\* every request has completed the in-flight gauge is 0 for every key.
C6_ScrapeContent ==
    /\ \A r \in Reqs :
         pc[r] = "done" =>
            /\ Count(metricOps[r], IsObserveDuration) = 1
            /\ Count(metricOps[r], IsObserveSize) = 1
            /\ \A i \in 1..Len(metricOps[r]) :
                  IsObservation(metricOps[r][i]) => metricOps[r][i].key = OwnSeries(r)
    /\ (\A r \in Reqs : pc[r] = "done") =>
          \A k \in DOMAIN reqInFlight : reqInFlight[k] = 0

\* C7: the route label is the template of the matched route, and the request
\* URI only when the request matched no route.
C7_RouteLabel ==
    \A r \in Reqs :
       Entered(r) =>
          routeName[r] = IF FullRoutes(arrived[r]) # {}
                         THEN chain[r].tpl
                         ELSE RequestURI(arrived[r])

\* the gauge key and the histogram series of a request served by a fallback
FallbackKey(r) == << RequestURI(arrived[r]), arrived[r].method >>
FallbackSeries(r, status) == << RequestURI(arrived[r]), arrived[r].method, status >>

\* the request was served by a built-in fallback and has the given status
FallbackMeasured(r, status) ==
    /\ chain[r].wrapped = 1
    /\ pc[r] # "dispatched" => Count(metricOps[r], IsInc) = 1
    /\ pc[r] = "handler" =>
          /\ metricOps[r] = << [op |-> "Inc", key |-> FallbackKey(r)] >>
          /\ FallbackKey(r) \in DOMAIN reqInFlight
    /\ Returned(r) => sw[r].status = FirstStatus(sink[r])
    /\ pc[r] = "done" =>
          /\ Count(metricOps[r], IsObserveDuration) = 1
          /\ Count(metricOps[r], IsDec) = 1
          /\ \A i \in 1..Len(metricOps[r]) :
                IsObservation(metricOps[r][i]) =>
                   metricOps[r][i].key = FallbackSeries(r, status)
          /\ HistCount(reqDurationHistogram, FallbackSeries(r, status)) >= 1
          /\ HistCount(reqRespSizeHistogram, FallbackSeries(r, status)) >= 1

FallbackStates ==
    \A r \in Reqs :
       pc[r] # "idle" =>
          /\ PathRoutes(arrived[r]) = {} => FallbackMeasured(r, "404")
          /\ PathRoutes(arrived[r]) # {} /\ FullRoutes(arrived[r]) = {} =>
                FallbackMeasured(r, "405")

\* the step by which a fallback request's handler starts raises the gauge of
\* the request's key by one, and the step after its observations lowers it
FallbackSteps ==
    \A r \in Reqs :
       FullRoutes(arrived[r]) = {} =>
          /\ pc[r] = "dispatched" /\ pc'[r] = "handler" =>
                GaugeValue(reqInFlight', FallbackKey(r)) =
                   GaugeValue(reqInFlight, FallbackKey(r)) + 1
          /\ pc[r] = "sizeObserved" /\ pc'[r] = "done" =>
                GaugeValue(reqInFlight', FallbackKey(r)) =
                   GaugeValue(reqInFlight, FallbackKey(r)) - 1

\* C8: a request to an undefined path goes through the middleware once: it
\* is counted in the in-flight gauge while its handler runs and, completed,
\* has a duration observation with status label "404"; a request with a
\* method its route does not allow likewise, with status label "405".
C8_FallbackMeasured == []FallbackStates /\ [][FallbackSteps]_vars

C8_Witness ==
    \E r, q \in Reqs :
       /\ pc[r] = "done" /\ PathRoutes(arrived[r]) = {}
       /\ HistCount(reqDurationHistogram, FallbackSeries(r, "404")) = 1
       /\ pc[q] = "done" /\ PathRoutes(arrived[q]) # {} /\ FullRoutes(arrived[q]) = {}
       /\ HistCount(reqDurationHistogram, FallbackSeries(q, "405")) = 1

\* C9: the WriteHeader and Write calls that reach the sink are the calls the
\* handler made, in order, with the same status codes and bytes, and every
\* Write returned to the handler the count and error the sink returned.
C9_Transparency ==
    \A r \in Reqs :
       SelectSeq(sink[r], SetsStatus) = SelectSeq(calls[r], SetsStatus)

C9_Witness ==
    \E r \in Reqs :
       /\ Entered(r)
       /\ Len(sink[r]) = 2
       /\ Count(calls[r], IsWriteHeader) = 1
       /\ \E i \in 1..Len(calls[r]) :
             calls[r][i].op = "Write" /\ calls[r][i].err # "nil"

\* C10: a Hijack on the observer returns what the sink's Hijack returned when
\* the sink is a Hijacker; when it is not, the sink is not called and the
\* caller gets no connection, no buffer and an error.
C10_HijackPassthrough ==
    \A r \in Reqs :
       Entered(r) =>
          LET asked == SelectSeq(calls[r], IsHijack)
              got   == SelectSeq(sink[r], IsHijack)
          IN  /\ hijacker[r] = "unknown" => asked = << >> /\ got = << >>
              /\ hijacker[r] = "yes" => got = asked
              /\ hijacker[r] = "no" =>
                    /\ got = << >>
                    /\ \A i \in 1..Len(asked) :
                          /\ asked[i].conn = "nil"
                          /\ asked[i].buf = "nil"
                          /\ asked[i].err # "nil"

\* the sink is no Hijacker, the handler asked and got the error
C10_Witness ==
    \E r \in Reqs :
       /\ Entered(r)
       /\ hijacker[r] = "no"
       /\ Count(calls[r], IsHijack) = 1
       /\ Count(sink[r], IsHijack) = 0

\* the gauge key a request has from its arrival on
OwnKey(r) == << RequestURI(arrived[r]), arrived[r].method >>

\* the request has passed the increment and not yet the decrement
InFlight(r) == pc[r] \in {"handler", "returned", "durationObserved", "sizeObserved"}

AllKeys == { << RequestURI(rq), m >> : rq \in Requests, m \in Methods }

\* C13: as long as no handler panics, the in-flight gauge of every key is
\* the number of requests of that key between increment and decrement; it is
\* never negative, and 0 for every key once every request has finished.
C13_LiveCount ==
    (\A r \in Reqs : pc[r] # "panicked") =>
       \A k \in AllKeys \cup DOMAIN reqInFlight :
          /\ GaugeValue(reqInFlight, k) =
                Cardinality({ r \in Reqs : InFlight(r) /\ OwnKey(r) = k })
          /\ GaugeValue(reqInFlight, k) >= 0

\* what a statusWriter holds after the calls of a log, told from the log alone
RECURSIVE StatusAfter(_)
StatusAfter(log) ==
    IF log = << >> THEN 0
    ELSE LET before == StatusAfter(SubSeq(log, 1, Len(log) - 1))
             last   == log[Len(log)]
         IN  IF last.op = "WriteHeader" THEN last.code
             ELSE IF last.op = "Write" /\ before = 0 THEN 200
             ELSE before

RECURSIVE LengthAfter(_)
LengthAfter(log) ==
    IF log = << >> THEN 0
    ELSE (IF Head(log).op = "Write" THEN Head(log).n ELSE 0) + LengthAfter(Tail(log))

\* C14: the observer of a request starts with status and length unset and
\* holds what the calls of the request's own handler make of it, whatever
\* the other requests do; the status label and the size observed for the
\* request are those.
C14_ObserverIsolation ==
    \A r \in Reqs :
       Entered(r) =>
          /\ sw[r].status = StatusAfter(calls[r])
          /\ sw[r].length = LengthAfter(calls[r])
          /\ \A i \in 1..Len(metricOps[r]) :
                /\ IsObservation(metricOps[r][i]) =>
                      metricOps[r][i].key[3] = Itoa(StatusAfter(calls[r]))
                /\ IsObserveSize(metricOps[r][i]) =>
                      metricOps[r][i].v = LengthAfter(calls[r])

\* two requests in their handlers at the same time, their observers differing
C14_Witness ==
    \E r, q \in Reqs :
       /\ r # q
       /\ pc[r] = "handler" /\ pc[q] = "handler"
       /\ calls[r] # << >> /\ calls[q] # << >>
       /\ sw[r].status # 0 /\ sw[q].status # 0
       /\ sw[r] # sw[q]

\* the names of the operations of a log, in order
OpNames(log) == [i \in 1..Len(log) |-> log[i].op]

MiddlewareOrder == << "Inc", "ObserveDuration", "ObserveSize", "Dec" >>

OrderStates ==
    \A r \in Reqs :
       /\ Len(metricOps[r]) <= 4
       /\ OpNames(metricOps[r]) = SubSeq(MiddlewareOrder, 1, Len(metricOps[r]))
       /\ calls[r] # << >> => Len(metricOps[r]) >= 1
       /\ pc[r] = "handler" => Len(metricOps[r]) = 1
       /\ Len(metricOps[r]) >= 2 =>
             /\ Returned(r)
             /\ metricOps[r][2].key[3] = Itoa(sw[r].status)
       /\ Len(metricOps[r]) >= 3 =>
             /\ metricOps[r][3].key[3] = Itoa(sw[r].status)
             /\ metricOps[r][3].v = sw[r].length
       /\ Len(metricOps[r]) \in {2, 3} =>
             /\ HistCount(reqDurationHistogram, metricOps[r][2].key) >= 1
             /\ metricOps[r][1].key \in DOMAIN reqInFlight

OrderSteps ==
    \A r \in Reqs :
       /\ calls'[r] # calls[r] =>
             OpNames(metricOps[r]) = << "Inc" >> /\ metricOps'[r] = metricOps[r]
       /\ Returned(r) => sw'[r] = sw[r] /\ calls'[r] = calls[r]
       /\ Len(metricOps[r]) \in {1, 2, 3} /\ Len(metricOps'[r]) \in {1, 2, 3} =>
             GaugeValue(reqInFlight', metricOps[r][1].key) >=
                GaugeValue(reqInFlight, metricOps[r][1].key)
                   - Cardinality({ q \in Reqs \ {r} : Len(metricOps'[q]) = 4
                                                     /\ Len(metricOps[q]) = 3 })

\* C15: within an invocation the increment comes before the handler starts,
\* both observations come after the handler has returned and carry the
\* status and byte count the observer holds then, and the decrement comes
\* after both; no step of a request lowers the gauge between its increment
\* and its decrement.
C15_StepOrder == []OrderStates /\ [][OrderSteps]_vars

C15_Witness ==
    \E r \in Reqs :
       /\ pc[r] = "sizeObserved"
       /\ Len(calls[r]) = 2
       /\ sw[r].status = 404
       /\ sw[r].length > 0
       /\ GaugeValue(reqInFlight, metricOps[r][1].key) = 1

\* C16: after Instrument every request the router dispatches goes through
\* the middleware once, on a matched route and on either fallback: it makes
\* one increment, at most one observation in each histogram and at most one
\* decrement, and exactly one of each when it has completed.
C16_NoDoubleCounting ==
    \A r \in Reqs :
       pc[r] # "idle" =>
          /\ chain[r].wrapped = 1
          /\ Count(metricOps[r], IsInc) = (IF pc[r] = "dispatched" THEN 0 ELSE 1)
          /\ Count(metricOps[r], IsObserveDuration) <= 1
          /\ Count(metricOps[r], IsObserveSize) <= 1
          /\ Count(metricOps[r], IsDec) <= 1
          /\ pc[r] = "done" => OpNames(metricOps[r]) = MiddlewareOrder

\* a matched route and a fallback, both completed
C16_Witness ==
    \E r, q \in Reqs :
       /\ pc[r] = "done" /\ chain[r].kind = "route"
       /\ pc[q] = "done" /\ chain[q].kind \in {"notfound", "notallowed"}
       /\ Len(metricOps[r]) = 4 /\ Len(metricOps[q]) = 4

\* C17: the status label of every observation is a status code, and it is
\* "200" for a handler that returned without calling WriteHeader or Write.
C17_StatusLabelFinal ==
    \A r \in Reqs : \A i \in 1..Len(metricOps[r]) :
       IsObservation(metricOps[r][i]) =>
          /\ metricOps[r][i].key[3] # "0"
          /\ Count(calls[r], SetsStatus) = 0 => metricOps[r][i].key[3] = "200"

\* C18: the key decremented is the key incremented, and both observations
\* carry its route and method.
C18_LabelStability ==
    \A r \in Reqs : \A i \in 1..Len(metricOps[r]) :
       /\ metricOps[r][i].key[1] = metricOps[r][1].key[1]
       /\ metricOps[r][i].key[2] = metricOps[r][1].key[2]

\* what the options of a call of New set a field to: the last option of that
\* name, or the default when there is none
RECURSIVE OptionValue(_, _, _)
OptionValue(opts, name, default) ==
    IF opts = << >> THEN default
    ELSE IF opts[Len(opts)].opt = name THEN opts[Len(opts)].v
    ELSE OptionValue(SubSeq(opts, 1, Len(opts) - 1), name, default)

\* the calls of New that have returned, in order
ReturnedNews == SelectSeq(proms, LAMBDA c : c.pc = "returned")

\* init has run to its end in the call
Inited(c) == c.pc \in {"inited", "returned", "fatal"}

RouterStates ==
    /\ \A i \in 1..Len(proms) :
          /\ proms[i].pc = "returned" =>
                OptionValue(proms[i].opts, "Router", "nil") = "router"
          /\ proms[i].pc = "fatal" =>
                OptionValue(proms[i].opts, "Router", "nil") = "nil"
    /\ Len(routes) = Len(ReturnedNews)
    /\ \A j \in 1..Len(routes) :
          /\ routes[j].methods = {"GET"}
          /\ routes[j].path =
                OptionValue(ReturnedNews[j].opts, "MetricsPath", "/metrics")
          /\ routes[j].name =
                OptionValue(ReturnedNews[j].opts, "MetricsRouteName", "metrics")

RouterSteps ==
    /\ Alive
    /\ \A i \in 1..Len(proms) :
          proms[i].pc = "inited" /\ proms'[i].pc # "inited" =>
             IF OptionValue(proms[i].opts, "Router", "nil") = "nil"
             THEN proms'[i].pc = "fatal" /\ routes' = routes
             ELSE proms'[i].pc = "returned" /\ Len(routes') = Len(routes) + 1

\* C11: a call of New whose options give no router ends in log.Fatal, after
\* which the process takes no step, and never returns; a call with a router
\* registers one route on it: method GET, the configured path and name.
C11_RequiredRouter == []RouterStates /\ [][RouterSteps]_vars

\* one call with a custom path and name has returned, the next has failed
C11_Witness ==
    /\ Len(proms) = 2
    /\ proms[1].pc = "returned"
    /\ proms[2].pc = "fatal"
    /\ routes = << [name |-> "prom", methods |-> {"GET"}, path |-> "/prom"] >>

\* the default upper bounds as documented: seconds in units of 0.0001 s, bytes
DocumentedDurationBuckets ==
    << 1, 5, 10, 50, 100, 250, 500, 1000, 2500, 5000, 10000, 25000, 50000, 100000 >>
DocumentedRespSizeBuckets ==
    << 0, 512, 1024, 102400, 524288, 1048576, 5242880, 10485760, 26214400,
       52428800, 104857600, 524288000 >>

\* a histogram child holding the single observation v under the upper bounds
\* given, the bucket past the last bound taking what exceeds them all
SingleObservation(child, v, bounds) ==
    /\ child.count = 1
    /\ child.sum = v
    /\ child.buckets =
          [i \in 1..(Len(bounds) + 1) |->
              IF i = 1 + Cardinality({ j \in 1..Len(bounds) : bounds[j] < v })
              THEN 1 ELSE 0]

\* C12: the histograms init builds have the upper bounds the options gave,
\* and the documented defaults where no option gave any; the observations of
\* a request fall into the buckets of those bounds.
C12_BucketConfiguration ==
    /\ \A i \in 1..Len(proms) :
          Inited(proms[i]) =>
             /\ proms[i].buckets.duration =
                   OptionValue(proms[i].opts, "DurationBucket", DocumentedDurationBuckets)
             /\ proms[i].buckets.size =
                   OptionValue(proms[i].opts, "RespSizeBucket", DocumentedRespSizeBuckets)
    /\ \A i \in 1..Len(metricOps[FirstReq]) :
          LET o    == metricOps[FirstReq][i]
              opts == proms[1].opts
          IN  /\ IsObserveDuration(o) =>
                    SingleObservation(reqDurationHistogram[o.key], o.v,
                       OptionValue(opts, "DurationBucket", DocumentedDurationBuckets))
              /\ IsObserveSize(o) =>
                    SingleObservation(reqRespSizeHistogram[o.key], o.v,
                       OptionValue(opts, "RespSizeBucket", DocumentedRespSizeBuckets))

\* built with the custom buckets; 10 bytes observed between the bounds 5 and 15
C12_Witness ==
    /\ proms # << >>
    /\ proms[1].buckets.duration = << 1000, 10000, 100000 >>
    /\ \E k \in DOMAIN reqDurationHistogram :
          reqDurationHistogram[k].buckets = << 1, 0, 0, 0 >>
    /\ \E k \in DOMAIN reqRespSizeHistogram :
          reqRespSizeHistogram[k].buckets = << 0, 1, 0 >>

\* the names a call of New registers
NamesOf(c) ==
    { [ns |-> OptionValue(c.opts, "Namespace", "muxprom"), name |-> n] :
         n \in {"http_requests_inflight", "http_request_duration_seconds",
                "http_response_size"} }

RegistryStates ==
    /\ registry = UNION { NamesOf(proms[i]) : i \in { j \in 1..Len(proms) : Inited(proms[j]) } }
    /\ \A i, j \in 1..Len(proms) :
          i < j /\ Inited(proms[i]) /\ NamesOf(proms[i]) = NamesOf(proms[j]) =>
             proms[j].pc \in {"options", "panicked"}
    /\ \A r \in Reqs : pc[r] # "idle" => NamesOf(proms[1]) \subseteq registry
    /\ router.middlewares > 0 => NamesOf(proms[1]) \subseteq registry

RegistrySteps ==
    /\ registry \subseteq registry'
    /\ registry' # registry =>
          LET i == Len(proms)
          IN  /\ proms[i].pc = "options" /\ proms'[i].pc = "inited"
              /\ NamesOf(proms[i]) \cap registry = {}
              /\ registry' = registry \cup NamesOf(proms[i])
              /\ Cardinality(registry') = Cardinality(registry) + 3
              /\ UNCHANGED << router, routes, pc, metricOps >>
    /\ \A i \in 1..Len(proms) :
          /\ proms[i].pc = "options" /\ proms'[i].pc = "panicked" =>
                registry' = registry /\ NamesOf(proms[i]) \subseteq registry
          /\ proms[i].pc = "options" => proms'[i].pc \in {"options", "inited", "panicked"}

\* C19: the registry holds the three collectors of every call of New whose
\* init ran to its end, registered in that init alone, before the router
\* check and before a request is served; no other step registers; a later
\* call with the namespace of an earlier one panics in init and leaves the
\* registry as it was.
C19_RegistrationAtConstruction == []RegistryStates /\ [][RegistrySteps]_vars

\* the second call has panicked, and a request was served after it
C19_Witness ==
    /\ Len(proms) = 2
    /\ proms[1].pc = "returned"
    /\ proms[2].pc = "panicked"
    /\ Cardinality(registry) = 3
    /\ pc[FirstReq] = "done"

====
